---- MODULE Spec2Model ----
(***************************************************************************)
(* A model of simple-vector2d (src/lib.rs): the value type Vector2<T> with *)
(* its operators, geometric queries, classification predicates and         *)
(* conversions, instantiated at a binary floating-point scalar.            *)
(*                                                                         *)
(* The scalar is an IEEE-754 binary format scaled down to MantBits         *)
(* fraction bits and ExpSpan + 1 normal binades, with signed zeros,        *)
(* subnormals, infinities, NaN and round-to-nearest-even arithmetic.  A    *)
(* finite value is kept as a sign and a magnitude counted in units of the  *)
(* smallest subnormal, so that all arithmetic is exact integer arithmetic  *)
(* followed by one rounding, as in the hardware.                           *)
(***************************************************************************)
EXTENDS Integers, Sequences, FiniteSets, TLC

VARIABLES pc, self, old, other, rhs, arg, out

vars == <<pc, self, old, other, rhs, arg, out>>

(***************************************************************************)
(* The floating-point format.                                              *)
(***************************************************************************)

\* Fraction bits of the scalar format (23 for f32, 52 for f64).
MantBits == 2

\* Number of normal binades above the lowest one (253 for f32).
ExpSpan == 2

RECURSIVE Pow2(_)
Pow2(n) == IF n = 0 THEN 1 ELSE 2 * Pow2(n - 1)

\* Precision in bits, the hidden bit included.
Prec == MantBits + 1

\* The smallest normal magnitude, in units of the smallest subnormal.
MinNormalMag == Pow2(MantBits)

\* The magnitude of 1.0: the middle binade, as in f32 and f64.
OneMag == MinNormalMag * Pow2(ExpSpan \div 2)

\* The largest finite magnitude (f32::MAX).
MaxMag == (Pow2(Prec) - 1) * Pow2(ExpSpan)

\* A magnitude is representable when it is k * 2^j with k < 2^Prec.
Representable(m) ==
    \E j \in 0..ExpSpan : m % Pow2(j) = 0 /\ m \div Pow2(j) < Pow2(Prec)

Mags == {m \in 0..MaxMag : Representable(m)}

Fin(n, m) == [cls |-> "fin", neg |-> n, mag |-> m]

Inf(n) == [cls |-> "inf", neg |-> n, mag |-> 0]

NaN == [cls |-> "nan", neg |-> FALSE, mag |-> 0]

\* Every value of the scalar type (the payload and sign of NaN are not kept).
Floats ==
    {Fin(n, m) : n \in BOOLEAN, m \in Mags}
        \cup {Inf(n) : n \in BOOLEAN} \cup {NaN}

Zero == Fin(FALSE, 0)

NegZero == Fin(TRUE, 0)

One == Fin(FALSE, OneMag)

IsZeroF(x) == x.cls = "fin" /\ x.mag = 0

\* The signed value of a finite float, in units of the smallest subnormal.
SVal(x) == IF x.neg THEN 0 - x.mag ELSE x.mag

Abs(i) == IF i < 0 THEN 0 - i ELSE i

\* The binade of the positive rational n/d: the least j with n/d < 2^(Prec+j).
RECURSIVE BinadeFrom(_, _, _)
BinadeFrom(n, d, j) ==
    IF n < Pow2(Prec) * Pow2(j) * d THEN j ELSE BinadeFrom(n, d, j + 1)

\* The rational n/d (n >= 0, d > 0, in units of the smallest subnormal)
\* rounded to the nearest float, ties to even; overflow gives infinity.
Round(n, num, den) ==
    LET j    == BinadeFrom(num, den, 0)
        step == Pow2(j) * den
        k0   == num \div step
        r    == num % step
        k    == IF 2 * r > step \/ (2 * r = step /\ k0 % 2 = 1)
                THEN k0 + 1 ELSE k0
        m    == k * Pow2(j)
    IN  IF m > MaxMag THEN Inf(n) ELSE Fin(n, m)

FNeg(x) == IF x.cls = "nan" THEN NaN ELSE [x EXCEPT !.neg = ~x.neg]

FAbs(x) == IF x.cls = "nan" THEN NaN ELSE [x EXCEPT !.neg = FALSE]

FAdd(x, y) ==
    IF x.cls = "nan" \/ y.cls = "nan" THEN NaN
    ELSE IF x.cls = "inf" /\ y.cls = "inf"
         THEN IF x.neg = y.neg THEN x ELSE NaN
    ELSE IF x.cls = "inf" THEN x
    ELSE IF y.cls = "inf" THEN y
    ELSE LET sum == SVal(x) + SVal(y)
         IN  IF sum = 0 THEN Fin(x.neg /\ y.neg, 0)
             ELSE Round(sum < 0, Abs(sum), 1)

FSub(x, y) == FAdd(x, FNeg(y))

FMul(x, y) ==
    IF x.cls = "nan" \/ y.cls = "nan" THEN NaN
    ELSE IF (x.cls = "inf" /\ IsZeroF(y)) \/ (IsZeroF(x) /\ y.cls = "inf")
         THEN NaN
    ELSE IF x.cls = "inf" \/ y.cls = "inf" THEN Inf(x.neg # y.neg)
    ELSE Round(x.neg # y.neg, x.mag * y.mag, OneMag)

FDiv(x, y) ==
    IF x.cls = "nan" \/ y.cls = "nan" THEN NaN
    ELSE IF (x.cls = "inf" /\ y.cls = "inf") \/ (IsZeroF(x) /\ IsZeroF(y))
         THEN NaN
    ELSE IF x.cls = "inf" THEN Inf(x.neg # y.neg)
    ELSE IF y.cls = "inf" THEN Fin(x.neg # y.neg, 0)
    ELSE IF IsZeroF(y) THEN Inf(x.neg # y.neg)
    ELSE Round(x.neg # y.neg, x.mag * OneMag, y.mag)

\* PartialEq of the scalar: NaN equals nothing, the two zeros are equal.
FEq(x, y) ==
    /\ x.cls # "nan"
    /\ y.cls # "nan"
    /\ x.cls = y.cls
    /\ IF x.cls = "inf" THEN x.neg = y.neg ELSE SVal(x) = SVal(y)

\* PartialOrd's < of the scalar.
FLt(x, y) ==
    /\ x.cls # "nan"
    /\ y.cls # "nan"
    /\ IF x.cls = "inf" THEN x.neg /\ ~(y.cls = "inf" /\ y.neg)
       ELSE IF y.cls = "inf" THEN ~y.neg
       ELSE SVal(x) < SVal(y)

\* f32::powi as compiler-rt's __powisf2 computes it: square and multiply.
RECURSIVE PowiLoop(_, _, _)
PowiLoop(a, b, r) ==
    LET r1 == IF b % 2 = 1 THEN FMul(r, a) ELSE r
        b1 == b \div 2
    IN  IF b1 = 0 THEN r1 ELSE PowiLoop(FMul(a, a), b1, r1)

Powi(a, n) ==
    LET r == PowiLoop(a, Abs(n), One)
    IN  IF n < 0 THEN FDiv(One, r) ELSE r

RECURSIVE Gcd(_, _)
Gcd(a, b) == IF b = 0 THEN a ELSE Gcd(b, a % b)

\* An angle is kept exactly, as the ray it names: sign * atan2(dy, dx) with
\* dy >= 0 and (dy, dx) in lowest terms.  (0, 1) is 0, (1, 1) is pi/4,
\* (1, 0) is pi/2, (1, -1) is 3pi/4 and (0, -1) is pi.
Angle(n, dy, dx) == [cls |-> "angle", neg |-> n, dy |-> dy, dx |-> dx]

AngleNaN == [cls |-> "nan", neg |-> FALSE, dy |-> 0, dx |-> 0]

\* f32::atan2 (y.atan2(x)) with the IEEE-754 special cases.
Atan2(y, x) ==
    LET sx == IF x.neg THEN 0 - 1 ELSE 1
    IN  IF y.cls = "nan" \/ x.cls = "nan" THEN AngleNaN
        ELSE IF y.cls = "inf" /\ x.cls = "inf" THEN Angle(y.neg, 1, sx)
        ELSE IF y.cls = "inf" THEN Angle(y.neg, 1, 0)
        ELSE IF x.cls = "inf" THEN Angle(y.neg, 0, sx)
        ELSE IF y.mag = 0 THEN Angle(y.neg, 0, sx)
        ELSE IF x.mag = 0 THEN Angle(y.neg, 1, 0)
        ELSE LET g == Gcd(y.mag, x.mag)
             IN  Angle(y.neg, y.mag \div g, sx * (x.mag \div g))

\* f32::is_nan: self != self.
IsNan(x) == ~FEq(x, x)

\* f32::is_infinite: (self == INFINITY) | (self == NEG_INFINITY).
IsInfinite(x) == FEq(x, Inf(FALSE)) \/ FEq(x, Inf(TRUE))

\* f32::is_finite: self.abs() < INFINITY.
IsFinite(x) == FLt(FAbs(x), Inf(FALSE))

\* The biased exponent field of the encoding: 0 for zeros and subnormals,
\* all ones for infinities and NaN.
ExpField(x) ==
    IF x.cls # "fin" THEN ExpSpan + 2
    ELSE IF x.mag < MinNormalMag THEN 0
    ELSE BinadeFrom(x.mag, 1, 0) + 1

\* The fraction field of the encoding (nonzero for NaN).
ManField(x) ==
    IF x.cls = "nan" THEN 1
    ELSE IF x.cls = "inf" THEN 0
    ELSE IF x.mag < MinNormalMag THEN x.mag
    ELSE (x.mag \div Pow2(BinadeFrom(x.mag, 1, 0))) % MinNormalMag

\* f32::classify: by the exponent and fraction fields.
Classify(x) ==
    LET man == ManField(x)
        exp == ExpField(x)
    IN  IF exp = ExpSpan + 2 THEN (IF man = 0 THEN "Infinite" ELSE "Nan")
        ELSE IF exp = 0 THEN (IF man = 0 THEN "Zero" ELSE "Subnormal")
        ELSE "Normal"

\* f32::is_normal: classify() == FpCategory::Normal.
IsNormal(x) == Classify(x) = "Normal"

(***************************************************************************)
(* Vector2<T>: a tuple struct of two scalars, fields 0 and 1.              *)
(***************************************************************************)

Vector2(x, y) == [c0 |-> x, c1 |-> y]

Vectors == {Vector2(x, y) : x \in Floats, y \in Floats}

\* consts::ZERO_F32, consts::ZERO_F64.
ZERO == Vector2(Zero, Zero)

\* derive(PartialEq): field by field.
VecEq(a, b) == FEq(a.c0, b.c0) /\ FEq(a.c1, b.c1)

\* A slip in length_squared: the first component squared twice.
length_squared_first_twice(v) == FAdd(Powi(v.c0, 2), Powi(v.c0, 2))

length_squared(v) == FAdd(Powi(v.c0, 2), Powi(v.c1, 2))

direction(v) == Atan2(v.c1, v.c0)

add(a, b) == Vector2(FAdd(a.c0, b.c0), FAdd(a.c1, b.c1))

\* A slip in sub: rhs.0 subtracted from both components.
sub_first_twice(a, b) == Vector2(FSub(a.c0, b.c0), FSub(a.c1, b.c0))

sub(a, b) == Vector2(FSub(a.c0, b.c0), FSub(a.c1, b.c1))

\* A slip in direction_to: the displacement taken from other to self.
direction_to_reversed(v, o) == direction(sub(v, o))

direction_to(v, o) == direction(sub(o, v))

is_any_nan(v) == IsNan(v.c0) \/ IsNan(v.c1)

is_any_infinite(v) == IsInfinite(v.c0) \/ IsInfinite(v.c1)

\* A slip in is_all_finite: || for &&.
is_all_finite_either(v) == IsFinite(v.c0) \/ IsFinite(v.c1)

is_all_finite(v) == IsFinite(v.c0) /\ IsFinite(v.c1)

is_all_normal(v) == IsNormal(v.c0) /\ IsNormal(v.c1)

\* impl Mul<Vector2<f32>> for f32: scalar * vector.
scalar_mul(s, v) == Vector2(FMul(s, v.c0), FMul(s, v.c1))

\* A slip in scalar / vector: the operands of each division exchanged.
scalar_div_exchanged(s, v) == Vector2(FDiv(v.c0, s), FDiv(v.c1, s))

\* impl Div<Vector2<f32>> for f32: scalar / vector.
scalar_div(s, v) == Vector2(FDiv(s, v.c0), FDiv(s, v.c1))

\* A slip in normal: the negation left out.
normal_not_negated(v) == Vector2(v.c1, v.c0)

normal(v) == Vector2(FNeg(v.c1), v.c0)

dot(a, b) == FAdd(FMul(a.c0, b.c0), FMul(a.c1, b.c1))

\* A slip in det: + for -.
det_plus(a, b) == FAdd(FMul(a.c0, b.c1), FMul(a.c1, b.c0))

det(a, b) == FSub(FMul(a.c0, b.c1), FMul(a.c1, b.c0))

\* The compound assignments: field 0 is updated, then field 1.
add_assign(v, r) ==
    LET s1 == [v EXCEPT !.c0 = FAdd(v.c0, r.c0)]
    IN  [s1 EXCEPT !.c1 = FAdd(s1.c1, r.c1)]

sub_assign(v, r) ==
    LET s1 == [v EXCEPT !.c0 = FSub(v.c0, r.c0)]
    IN  [s1 EXCEPT !.c1 = FSub(s1.c1, r.c1)]

mul_assign(v, s) ==
    LET s1 == [v EXCEPT !.c0 = FMul(v.c0, s)]
    IN  [s1 EXCEPT !.c1 = FMul(s1.c1, s)]

\* A slip in div_assign: field 1 left as it was.
div_assign_first_only(v, s) == [v EXCEPT !.c0 = FDiv(v.c0, s)]

div_assign(v, s) ==
    LET s1 == [v EXCEPT !.c0 = FDiv(v.c0, s)]
    IN  [s1 EXCEPT !.c1 = FDiv(s1.c1, s)]

mul(v, s) == Vector2(FMul(v.c0, s), FMul(v.c1, s))

\* A slip in div: field 0 divided twice.
div_first_twice(v, s) == Vector2(FDiv(v.c0, s), FDiv(v.c0, s))

div(v, s) == Vector2(FDiv(v.c0, s), FDiv(v.c1, s))

neg(v) == Vector2(FNeg(v.c0), FNeg(v.c1))

\* [T; 2]: indices 0 and 1.
Arrays == [0..1 -> Floats]

\* (T, T): fields 0 and 1 of a pair, kept as a two-element tuple.
Tuples == Floats \X Floats

into_array(v) == [i \in 0..1 |-> IF i = 0 THEN v.c0 ELSE v.c1]

\* A slip in from_array: the indices exchanged.
from_array_exchanged(array) == Vector2(array[1], array[0])

from_array(array) == Vector2(array[0], array[1])

into_tuple(v) == <<v.c0, v.c1>>

from_tuple(tuple) == Vector2(tuple[1], tuple[2])

(***************************************************************************)
(* The state machine: a vector is constructed, then one operation is       *)
(* applied to it.  self is the receiver (changed by the compound           *)
(* assignments only), old the receiver when the operation was called,      *)
(* other and rhs the vector and scalar operands, arg the input of a        *)
(* conversion and out the value returned.                                  *)
(***************************************************************************)

\* A value passed to or returned by a call, with its type.
Ret(ty, v) == <<ty, v>>

\* The value itself.
Val(r) == r[2]

\* The unit value: what a compound assignment returns, and the argument
\* and result of a call that has none.
Unit == Ret("unit", <<>>)

\* The scalar operands tried besides the receiver's own components: both
\* zeros, the smallest subnormal, 1, the largest finite value, the
\* infinities and NaN, of either sign.
Probes ==
    {NaN} \cup {Inf(n) : n \in BOOLEAN}
          \cup {Fin(n, m) : n \in BOOLEAN, m \in {0, 1, OneMag, MaxMag}}

\* The components of the second operand of a two-vector operation.
VecProbes == {Zero, One, Fin(TRUE, MaxMag), Inf(FALSE), NaN}

\* The second operands tried with receiver v: the probe vectors (ZERO and
\* the unit vectors RIGHT and UP among them) and v itself.
Operands(v) == {Vector2(x, y) : x \in VecProbes, y \in VecProbes} \cup {v}

Init ==
    /\ pc = "start"
    /\ self = ZERO
    /\ old = ZERO
    /\ other = ZERO
    /\ rhs = Zero
    /\ arg = Unit
    /\ out = Unit

\* Vector2(x, y): direct construction.
New ==
    /\ pc = "start"
    /\ \E x \in Floats, y \in Floats : self' = Vector2(x, y)
    /\ pc' = "new"
    /\ old' = self'
    /\ UNCHANGED <<other, rhs, arg, out>>

FromArray ==
    /\ pc = "start"
    /\ \E array \in Arrays :
          /\ arg' = Ret("array", array)
          /\ self' = from_array(array)
    /\ pc' = "from_array"
    /\ old' = self'
    /\ UNCHANGED <<other, rhs, out>>

FromTuple ==
    /\ pc = "start"
    /\ \E tuple \in Tuples :
          /\ arg' = Ret("tuple", tuple)
          /\ self' = from_tuple(tuple)
    /\ pc' = "from_tuple"
    /\ old' = self'
    /\ UNCHANGED <<other, rhs, out>>

Constructed == pc \in {"new", "from_array", "from_tuple"}

IntoArray ==
    /\ Constructed
    /\ pc' = "into_array"
    /\ out' = Ret("array", into_array(self))
    /\ UNCHANGED <<self, old, other, rhs, arg>>

IntoTuple ==
    /\ Constructed
    /\ pc' = "into_tuple"
    /\ out' = Ret("tuple", into_tuple(self))
    /\ UNCHANGED <<self, old, other, rhs, arg>>

\* An operation of the receiver alone, returning f(self).
Unary(name, ty, result) ==
    /\ pc' = name
    /\ out' = Ret(ty, result)
    /\ UNCHANGED <<self, old, other, rhs, arg>>

LengthSquared ==
    /\ pc = "new"
    /\ Unary("length_squared", "scalar", length_squared(self))

Direction ==
    /\ pc = "new"
    /\ Unary("direction", "angle", direction(self))

IsAnyNan ==
    /\ pc = "new"
    /\ Unary("is_any_nan", "bool", is_any_nan(self))

IsAnyInfinite ==
    /\ pc = "new"
    /\ Unary("is_any_infinite", "bool", is_any_infinite(self))

IsAllFinite ==
    /\ pc = "new"
    /\ Unary("is_all_finite", "bool", is_all_finite(self))

IsAllNormal ==
    /\ pc = "new"
    /\ Unary("is_all_normal", "bool", is_all_normal(self))

Normal ==
    /\ pc = "new"
    /\ Unary("normal", "vector", normal(self))

Neg ==
    /\ pc = "new"
    /\ Unary("neg", "vector", neg(self))

\* An operation of the receiver and a second vector o.
Binary(name, ty, o, result) ==
    /\ pc' = name
    /\ other' = o
    /\ out' = Ret(ty, result)
    /\ UNCHANGED <<self, old, rhs, arg>>

Add ==
    /\ pc = "new"
    /\ \E o \in Operands(self) : Binary("add", "vector", o, add(self, o))

Sub ==
    /\ pc = "new"
    /\ \E o \in Operands(self) : Binary("sub", "vector", o, sub(self, o))

Dot ==
    /\ pc = "new"
    /\ \E o \in Operands(self) : Binary("dot", "scalar", o, dot(self, o))

Det ==
    /\ pc = "new"
    /\ \E o \in Operands(self) : Binary("det", "scalar", o, det(self, o))

DirectionTo ==
    /\ pc = "new"
    /\ \E o \in Operands(self) :
          Binary("direction_to", "angle", o, direction_to(self, o))

\* A compound assignment with a vector: the receiver is changed in place.
AddAssign ==
    /\ pc = "new"
    /\ \E o \in Operands(self) :
          /\ other' = o
          /\ self' = add_assign(self, o)
    /\ pc' = "add_assign"
    /\ out' = Unit
    /\ UNCHANGED <<old, rhs, arg>>

SubAssign ==
    /\ pc = "new"
    /\ \E o \in Operands(self) :
          /\ other' = o
          /\ self' = sub_assign(self, o)
    /\ pc' = "sub_assign"
    /\ out' = Unit
    /\ UNCHANGED <<old, rhs, arg>>

\* An operation of the receiver and a scalar s.
Scalar(name, s, result) ==
    /\ pc' = name
    /\ rhs' = s
    /\ out' = Ret("vector", result)
    /\ UNCHANGED <<self, old, other, arg>>

Mul ==
    /\ pc = "new"
    /\ \E s \in Floats : Scalar("mul", s, mul(self, s))

Div ==
    /\ pc = "new"
    /\ \E s \in Probes : Scalar("div", s, div(self, s))

ScalarMul ==
    /\ pc = "new"
    /\ \E s \in Probes : Scalar("scalar_mul", s, scalar_mul(s, self))

ScalarDiv ==
    /\ pc = "new"
    /\ \E s \in Probes : Scalar("scalar_div", s, scalar_div(s, self))

MulAssign ==
    /\ pc = "new"
    /\ \E s \in Probes :
          /\ rhs' = s
          /\ self' = mul_assign(self, s)
    /\ pc' = "mul_assign"
    /\ out' = Unit
    /\ UNCHANGED <<old, other, arg>>

DivAssign ==
    /\ pc = "new"
    /\ \E s \in Probes :
          /\ rhs' = s
          /\ self' = div_assign(self, s)
    /\ pc' = "div_assign"
    /\ out' = Unit
    /\ UNCHANGED <<old, other, arg>>

Next ==
    \/ New
    \/ FromArray
    \/ FromTuple
    \/ IntoArray
    \/ IntoTuple
    \/ LengthSquared
    \/ Direction
    \/ IsAnyNan
    \/ IsAnyInfinite
    \/ IsAllFinite
    \/ IsAllNormal
    \/ Normal
    \/ Neg
    \/ Add
    \/ Sub
    \/ Dot
    \/ Det
    \/ DirectionTo
    \/ AddAssign
    \/ SubAssign
    \/ Mul
    \/ Div
    \/ ScalarMul
    \/ ScalarDiv
    \/ MulAssign
    \/ DivAssign

Spec == Init /\ [][Next]_vars

(***************************************************************************)
(* The claims.  Each is stated over the state an operation leaves: Val(out) *)
(* (or self, for a compound assignment) is what the operation computed.    *)
(***************************************************************************)

\* The relative tolerance of the scalar type: |r - x| <= EPSILON * |x|,
\* with EPSILON = 2^-MantBits; an infinity or NaN is close to nothing.
Close(r, x) ==
    /\ r.cls = "fin"
    /\ x.cls = "fin"
    /\ Abs(SVal(r) - SVal(x)) * Pow2(MantBits) <= x.mag

VecClose(a, b) == Close(a.c0, b.c0) /\ Close(a.c1, b.c1)

\* x * s neither underflows nor overflows: x is a zero, or the exact
\* product is at least the smallest normal number in magnitude and its
\* rounding is finite.
InRange(x, s) ==
    \/ IsZeroF(x)
    \/ /\ x.cls = "fin"
       /\ s.cls = "fin"
       /\ x.mag * s.mag >= MinNormalMag * OneMag
       /\ IsFinite(FMul(x, s))

\* C1 as stated: for every vector v, v + zero == v and v - v == zero.
C1_Original ==
    /\ (pc = "add" /\ other = ZERO) => VecEq(Val(out), self)
    /\ (pc = "sub" /\ other = self) => VecEq(Val(out), ZERO)

\* C1, amended: for every vector v whose components are both finite
\* (neither infinite nor NaN), v + zero == v and v - v == zero.
C1_ZeroIdentityFinite ==
    /\ (pc = "add" /\ other = ZERO /\ is_all_finite(self)) => VecEq(Val(out), self)
    /\ (pc = "sub" /\ other = self /\ is_all_finite(self)) => VecEq(Val(out), ZERO)

C1_Witness ==
    /\ pc = "sub"
    /\ other = self
    /\ is_all_finite(self)
    /\ self.c0.mag = MaxMag
    /\ self.c1 = NegZero
    /\ Val(out) = ZERO

\* C2 as stated: for every vector v and every scalar s != 0, (v * s) / s
\* equals v within the tolerance of the scalar type.
C2_Original ==
    (pc = "mul" /\ ~FEq(rhs, Zero)) => VecClose(div(Val(out), rhs), self)

\* C2, amended: for every vector v with finite components and every finite
\* scalar s != 0 such that neither v.0 * s nor v.1 * s underflows or
\* overflows (the exact product of each nonzero component with s is at
\* least the smallest normal number in magnitude, and rounds to a finite
\* value), (v * s) / s equals v within the relative tolerance EPSILON.
C2_ScaleRoundTripInRange ==
    ( /\ pc = "mul"
      /\ ~FEq(rhs, Zero)
      /\ IsFinite(rhs)
      /\ is_all_finite(self)
      /\ InRange(self.c0, rhs)
      /\ InRange(self.c1, rhs) ) => VecClose(div(Val(out), rhs), self)

C2_Witness ==
    /\ pc = "mul"
    /\ IsFinite(rhs)
    /\ ~FEq(rhs, Zero)
    /\ is_all_finite(self)
    /\ ~IsZeroF(self.c0)
    /\ ~IsZeroF(self.c1)
    /\ InRange(self.c0, rhs)
    /\ InRange(self.c1, rhs)
    /\ ~FEq(self.c0, self.c1)
    /\ VecClose(div(Val(out), rhs), self)
    /\ ~VecEq(div(Val(out), rhs), self)

\* C3: for every vector v, length_squared(v) is the value dot(v, v): the
\* two are the same float (both NaN together), and compare equal with ==
\* whenever the value is not NaN.
C3_LengthSquaredIsDot ==
    /\ pc = "length_squared" =>
          /\ Val(out) = dot(self, self)
          /\ ~IsNan(Val(out)) => FEq(Val(out), dot(self, self))
    /\ (pc = "dot" /\ other = self) =>
          /\ Val(out) = length_squared(self)
          /\ ~IsNan(Val(out)) => FEq(Val(out), length_squared(self))

C3_Witness ==
    /\ pc = "length_squared"
    /\ Val(out).cls = "fin"
    /\ Val(out).mag > 0
    /\ self.c0.mag > self.c1.mag
    /\ self.c1.mag > 0
    /\ Val(out) = dot(self, self)

\* C4 as stated: for every vector v, v.normal() is (-y, x) and
\* v.normal().dot(v) == 0.
C4_Original ==
    pc = "normal" =>
        /\ Val(out) = Vector2(FNeg(self.c1), self.c0)
        /\ FEq(dot(Val(out), self), Zero)

\* C4, amended: for every vector v, v.normal() is (-y, x); and whenever
\* the product x * y is finite (no NaN or infinite component, no overflow),
\* v.normal().dot(v) == 0.
C4_NormalPerpendicularFinite ==
    pc = "normal" =>
        /\ Val(out) = Vector2(FNeg(self.c1), self.c0)
        /\ IsFinite(FMul(self.c0, self.c1)) => FEq(dot(Val(out), self), Zero)

C4_Witness ==
    /\ pc = "normal"
    /\ IsNormal(FMul(self.c0, self.c1))
    /\ ~FEq(self.c0, self.c1)
    /\ FEq(dot(Val(out), self), Zero)

\* C5 as stated: for all vectors a, b, det(a, b) == -det(b, a), and for
\* every v, det(v, v) == 0.
C5_Original ==
    pc = "det" =>
        /\ FEq(Val(out), FNeg(det(other, self)))
        /\ other = self => FEq(Val(out), Zero)

\* C5, amended: for all vectors a, b whose cross products a.x * b.y and
\* a.y * b.x are both finite (no NaN or infinite component, no overflow),
\* det(a, b) == -det(b, a); and for every v with x * y finite,
\* det(v, v) == 0.
C5_DetAntisymmetricFinite ==
    ( /\ pc = "det"
      /\ IsFinite(FMul(self.c0, other.c1))
      /\ IsFinite(FMul(self.c1, other.c0)) ) =>
        /\ FEq(Val(out), FNeg(det(other, self)))
        /\ other = self => FEq(Val(out), Zero)

C5_Witness ==
    /\ pc = "det"
    /\ IsFinite(FMul(self.c0, other.c1))
    /\ IsFinite(FMul(self.c1, other.c0))
    /\ other # self
    /\ Val(out).cls = "fin"
    /\ Val(out).mag > 0
    /\ FEq(Val(out), FNeg(det(other, self)))

\* C6: a vector converted to an array and back, or to a pair and back, is
\* the same vector; an array or pair converted to a vector and back is the
\* same array or pair; index 0 and field 0 carry the first component,
\* index 1 and field 1 the second.
C6_ConversionsRoundTrip ==
    /\ pc = "into_array" =>
          /\ from_array(Val(out)) = self
          /\ Val(out)[0] = self.c0
          /\ Val(out)[1] = self.c1
    /\ pc = "into_tuple" =>
          /\ from_tuple(Val(out)) = self
          /\ Val(out)[1] = self.c0
          /\ Val(out)[2] = self.c1
    /\ pc = "from_array" =>
          /\ into_array(self) = Val(arg)
          /\ self.c0 = Val(arg)[0]
          /\ self.c1 = Val(arg)[1]
    /\ pc = "from_tuple" =>
          /\ into_tuple(self) = Val(arg)
          /\ self.c0 = Val(arg)[1]
          /\ self.c1 = Val(arg)[2]

C6_Witness ==
    /\ pc = "into_array"
    /\ self.c0 = NaN
    /\ self.c1 = One
    /\ from_array(Val(out)) = self

\* 3 pi / 4: the angle of the ray through (-1, 1).
ThreeQuarterPi == Angle(FALSE, 1, 0 - 1)

\* C7: for all vectors a, b, a.direction_to(b) is (b - a).direction(),
\* which is atan2(b.y - a.y, b.x - a.x); Vector2(1, 0).direction_to(
\* Vector2(0, 1)) is 3 pi / 4, and not the direction of a - b.
C7_DirectionToIsOtherMinusSelf ==
    pc = "direction_to" =>
        /\ Val(out) = direction(sub(other, self))
        /\ Val(out) = Atan2(FSub(other.c1, self.c1), FSub(other.c0, self.c0))
        /\ (self = Vector2(One, Zero) /\ other = Vector2(Zero, One)) =>
              /\ Val(out) = ThreeQuarterPi
              /\ Val(out) # direction(sub(self, other))

C7_Witness ==
    /\ pc = "direction_to"
    /\ self = Vector2(One, Zero)
    /\ other = Vector2(Zero, One)
    /\ Val(out) = ThreeQuarterPi

\* C8: for every vector over all float classes, is_all_finite holds
\* exactly when neither is_any_nan nor is_any_infinite holds; a vector with
\* a NaN component has is_any_nan true and is_all_finite false; and
\* is_all_normal implies is_all_finite.
C8_ClassificationConsistent ==
    /\ pc = "is_all_finite" =>
          (Val(out) <=> (~is_any_nan(self) /\ ~is_any_infinite(self)))
    /\ (pc = "is_any_nan" /\ (self.c0 = NaN \/ self.c1 = NaN)) =>
          (Val(out) /\ ~is_all_finite(self))
    /\ (pc = "is_any_nan" /\ self.c0 # NaN /\ self.c1 # NaN) => ~Val(out)
    /\ (pc = "is_any_infinite") =>
          (Val(out) <=> (self.c0.cls = "inf" \/ self.c1.cls = "inf"))
    /\ (pc = "is_all_normal" /\ Val(out)) => is_all_finite(self)

C8_Witness ==
    /\ pc = "is_all_finite"
    /\ self.c0 = NaN
    /\ self.c1 = One
    /\ ~Val(out)

\* C9: after a += b, a is old(a) + b; after a -= b, old(a) - b; after
\* a *= s, old(a) * s; after a /= s, old(a) / s: both components are
\* updated, each with the right-hand operand as given.
C9_AssignAgreesWithOperator ==
    /\ pc = "add_assign" => (self = add(old, other) /\ out = Unit)
    /\ pc = "sub_assign" => (self = sub(old, other) /\ out = Unit)
    /\ pc = "mul_assign" => (self = mul(old, rhs) /\ out = Unit)
    /\ pc = "div_assign" => (self = div(old, rhs) /\ out = Unit)

C9_Witness ==
    /\ pc = "div_assign"
    /\ is_all_finite(old)
    /\ is_all_finite(self)
    /\ ~FEq(self.c0, old.c0)
    /\ ~FEq(self.c1, old.c1)
    /\ ~FEq(old.c0, old.c1)
    /\ self = div(old, rhs)

\* C10: for every scalar s and vector v = (x, y), s * v is (s*x, s*y),
\* which is v * s; and s / v is (s/x, s/y), the scalar being the dividend.
C10_ScalarOnTheLeft ==
    /\ pc = "scalar_mul" =>
          /\ Val(out) = Vector2(FMul(rhs, self.c0), FMul(rhs, self.c1))
          /\ Val(out) = mul(self, rhs)
    /\ pc = "scalar_div" =>
          Val(out) = Vector2(FDiv(rhs, self.c0), FDiv(rhs, self.c1))

\* s / v differs from v / s: 1 / (2, 2) is not (2, 2) / 1.
C10_Witness ==
    /\ pc = "scalar_div"
    /\ is_all_finite(self)
    /\ is_all_finite(Val(out))
    /\ IsFinite(rhs)
    /\ Val(out) = Vector2(FDiv(rhs, self.c0), FDiv(rhs, self.c1))
    /\ ~VecEq(Val(out), div(self, rhs))
====
